---- MODULE Spec2Model ----
(***************************************************************************)
(* Community Connect (src/app.py): a Flask application over three SQLite   *)
(* tables (users, appointments, reviews) with signed client-held session   *)
(* cookies.  Text is modelled as a sequence of one-character strings so    *)
(* that str.strip(), str.lower() and int() are computed, not assumed.      *)
(*                                                                         *)
(* Every handler is one action, except POST /register, which is two: the   *)
(* existence check and the INSERT are separate statements, and another     *)
(* request may be served between them.                                     *)
(***************************************************************************)
EXTENDS Integers, Sequences, FiniteSets, Bags, TLC

VARIABLES
    users,          \* rows of table users, in rowid order
    appointments,   \* rows of table appointments, in rowid order
    reviews,        \* rows of table reviews, in rowid order
    cookie,         \* the session cookie the browser holds
    issued,         \* every non-empty session the server has signed
    ended,          \* sessions cleared by /logout and not started again since
    pending,        \* POST /register requests between their check and their INSERT
    now,            \* the clock datetime.utcnow() reads: later at every write
    last            \* the request served last, with its response

vars == <<users, appointments, reviews, cookie, issued, ended, pending, now, last>>

(* ------------------------------ bounds --------------------------------- *)
\* rows in the three tables plus registrations in flight
MaxRows == 3

Salts == {"s1"}

(* Form inputs, as the browser submits them (untrimmed, any letter case). *)
NameInputs == {<<>>, <<" ">>, <<" ", "n">>}
EmailInputs == {<<>>, <<"a">>, <<" ", "A", " ">>, <<"b">>}
\* passwords offered at registration, and at login (a wrong one among them)
PasswordInputs == {<<>>, <<"p">>}
LoginPasswordInputs == {<<>>, <<"p">>, <<"q">>}
ContactInputs == {<<>>, <<"E", " ">>}
DateInputs == {<<>>, <<"d">>}
TimeInputs == {<<" ">>, <<"t">>}
ReasonInputs == {<<>>, <<"r">>}
RatingInputs == {<<>>, <<"4">>, <<"a", "b", "c">>, <<"4", "a">>}
CommentInputs == {<<>>, <<"c">>}

(* ------------------------------ text ----------------------------------- *)
None == <<>>

IsSpace(ch) == ch \in {" ", "\t", "\n"}

RECURSIVE lstrip(_)
lstrip(s) == IF s = <<>> THEN s
             ELSE IF IsSpace(Head(s)) THEN lstrip(Tail(s)) ELSE s

RECURSIVE rstrip(_)
rstrip(s) == IF s = <<>> THEN s
             ELSE IF IsSpace(s[Len(s)]) THEN rstrip(SubSeq(s, 1, Len(s) - 1)) ELSE s

\* str.strip(): leading and trailing whitespace removed
strip(s) == rstrip(lstrip(s))

LowerChar(ch) == CASE ch = "A" -> "a"
                   [] ch = "B" -> "b"
                   [] ch = "E" -> "e"
                   [] OTHER -> ch

\* str.lower()
lower(s) == [i \in 1..Len(s) |-> LowerChar(s[i])]

Digits == {"0", "1", "2", "3", "4", "5", "6", "7", "8", "9"}

DigitVal(ch) == CASE ch = "0" -> 0 [] ch = "1" -> 1 [] ch = "2" -> 2 [] ch = "3" -> 3
                  [] ch = "4" -> 4 [] ch = "5" -> 5 [] ch = "6" -> 6 [] ch = "7" -> 7
                  [] ch = "8" -> 8 [] ch = "9" -> 9 [] OTHER -> 0

RECURSIVE DecimalValue(_)
DecimalValue(s) == IF s = <<>> THEN 0
                   ELSE 10 * DecimalValue(SubSeq(s, 1, Len(s) - 1)) + DigitVal(s[Len(s)])

\* int(text): surrounding whitespace and one sign are accepted, then one or
\* more decimal digits; anything else raises ValueError.
int_parses(s) ==
    LET t == strip(s)
        d == IF t # <<>> /\ Head(t) \in {"+", "-"} THEN Tail(t) ELSE t
    IN  d # <<>> /\ \A i \in 1..Len(d) : d[i] \in Digits

int_value(s) ==
    LET t == strip(s)
        neg == t # <<>> /\ Head(t) = "-"
        d == IF t # <<>> /\ Head(t) \in {"+", "-"} THEN Tail(t) ELSE t
    IN  IF neg THEN 0 - DecimalValue(d) ELSE DecimalValue(d)

(* ------------------------------ responses ------------------------------ *)
Redirect(to, category, message) ==
    [kind |-> "redirect", to |-> to, flash |-> <<category, message>>, body |-> <<>>]

RedirectOnly(to) ==
    [kind |-> "redirect", to |-> to, flash |-> <<>>, body |-> <<>>]

Render(template, body) ==
    [kind |-> "render", to |-> template, flash |-> <<>>, body |-> body]

\* an exception nobody catches: the request ends as a server fault (HTTP 500)
Fault(exception) ==
    [kind |-> "fault", to |-> exception, flash |-> <<>>, body |-> <<>>]

NoForm == <<>>

Reply(op, form, resp) == [op |-> op, form |-> form, resp |-> resp]

(* ------------------------------ sessions ------------------------------- *)
EmptySession == <<>>

\* "user_id" in session
HasSession(session) == "user_id" \in DOMAIN session

\* user_id INTEGER, nullable: the value of a missing owner (SQL NULL)
NullId == 0

\* session.get("user_id")
session_user_id(session) == IF HasSession(session) THEN session["user_id"] ELSE NullId

\* session["user_id"] = user["id"]; session["user_name"] = user["name"]
start_session(user) == [user_id |-> user.id, user_name |-> user.name]

(* ------------------------------ state ---------------------------------- *)
Init ==
    /\ users = <<>>
    /\ appointments = <<>>
    /\ reviews = <<>>
    /\ cookie = EmptySession
    /\ issued = {}
    /\ ended = {}
    /\ pending = EmptyBag
    /\ now = 0
    /\ last = Reply("start", NoForm, Render("home.html", <<>>))

\* a server that kept a list of ended sessions and refused them
resolve_revoking(token, signed) ==
    IF token \in signed \ ended THEN token ELSE EmptySession

\* Flask opens the session from the cookie only if it carries the signature
\* made with app.secret_key; anything else is an empty session
resolve(token, signed) == IF token \in signed THEN token ELSE EmptySession

\* the session of the request being served
request_session == resolve(cookie, issued)

NumRows == Len(users) + Len(appointments) + Len(reviews) + BagCardinality(pending)

(* ------------------------------ datastore ------------------------------ *)
\* SELECT * FROM users WHERE email = ? ; fetchone()
get_user_by_email(rows, email) ==
    IF \E i \in 1..Len(rows) : rows[i].email = email
    THEN rows[CHOOSE i \in 1..Len(rows) :
                  /\ rows[i].email = email
                  /\ \A j \in 1..(i - 1) : rows[j].email # email]
    ELSE None

\* SELECT * FROM users WHERE id = ? ; fetchone()
get_user_by_id(rows, user_id) ==
    IF \E i \in 1..Len(rows) : rows[i].id = user_id
    THEN rows[CHOOSE i \in 1..Len(rows) : rows[i].id = user_id]
    ELSE None

\* a users table declared without UNIQUE on email
email_is_unique_unenforced(rows, email) == TRUE

\* users.email TEXT NOT NULL UNIQUE: whether the table accepts a row with this email
email_is_unique(rows, email) == \A i \in 1..Len(rows) : rows[i].email # email

\* id INTEGER PRIMARY KEY AUTOINCREMENT: no row is ever deleted
next_id(rows) == Len(rows) + 1

\* a write that lands on the newest row instead of after it
insert_row_replacing(rows, row) ==
    IF rows = <<>> THEN <<row>> ELSE [rows EXCEPT ![Len(rows)] = row]

\* INSERT INTO <table> ... ; commit(): one new row after the existing ones
insert_row(rows, row) == Append(rows, row)

\* werkzeug generate_password_hash: a salted one-way digest; the pair
\* <<salt, password>> stands for a collision-free digest of both
generate_password_hash(password, salt) ==
    [salt |-> salt, digest |-> <<salt, password>>]

\* werkzeug check_password_hash: recompute with the stored salt and compare
check_password_hash(pwhash, password) == pwhash.digest = <<pwhash.salt, password>>

\* ORDER BY created_at DESC: place row in a list already in that order
RECURSIVE insert_desc(_, _)
insert_desc(sorted, row) ==
    IF sorted = <<>> THEN <<row>>
    ELSE IF Head(sorted).created_at < row.created_at
         THEN <<row>> \o sorted
         ELSE <<Head(sorted)>> \o insert_desc(Tail(sorted), row)

RECURSIVE order_by_created_at_desc(_)
order_by_created_at_desc(rows) ==
    IF rows = <<>> THEN <<>>
    ELSE insert_desc(order_by_created_at_desc(Tail(rows)), Head(rows))

\* the query without its WHERE clause
where_user_id_unfiltered(rows, user_id) == rows

\* WHERE user_id = ? (NULL matches nothing)
where_user_id(rows, user_id) ==
    SelectSeq(rows, LAMBDA r : r.user_id # NullId /\ r.user_id = user_id)

\* SELECT * FROM appointments WHERE user_id = ? ORDER BY created_at DESC
list_for_owner(rows, user_id) ==
    order_by_created_at_desc(where_user_id(rows, user_id))

\* SELECT r.*, u.email as user_email FROM reviews r LEFT JOIN users u
\*   ON r.user_id = u.id ORDER BY r.created_at DESC
list_all(rows, userRows) ==
    LET joined == [i \in 1..Len(rows) |->
                     [review |-> rows[i],
                      created_at |-> rows[i].created_at,
                      user_email |->
                          IF get_user_by_id(userRows, rows[i].user_id) = None THEN None
                          ELSE get_user_by_id(userRows, rows[i].user_id).email]]
    IN  order_by_created_at_desc(joined)

(* ------------------------------ request gate --------------------------- *)
GateDenied == Redirect("login", "warning", "Please log in to access that page.")

\* a route left without its decorator
login_required_absent(session) == TRUE

\* the decorator lets the handler run only when the session holds a user_id
login_required(session) == HasSession(session)

(* ------------------------------ public pages --------------------------- *)
home ==
    /\ last' = Reply("home", NoForm, Render("home.html", <<>>))
    /\ UNCHANGED <<users, appointments, reviews, cookie, issued, ended, pending, now>>

about ==
    /\ last' = Reply("about", NoForm, Render("about.html", <<>>))
    /\ UNCHANGED <<users, appointments, reviews, cookie, issued, ended, pending, now>>

(* ------------------------------ register ------------------------------- *)
\* the forms submitted: complete ones, and ones with a single field left empty
RegisterForms ==
    {f \in [name : NameInputs, email : EmailInputs, password : PasswordInputs] :
        Cardinality({k \in {"name", "email", "password"} : f[k] \in {<<>>, <<" ">>}}) <= 1}

register_name(form) == strip(form.name)

register_email(form) == lower(strip(form.email))

\* not (name and email and password)
register_fields_missing(form) ==
    \/ register_name(form) = <<>>
    \/ register_email(form) = <<>>
    \/ form.password = <<>>

DuplicateEmail ==
    Redirect("register", "warning", "An account with that email already exists.")

register_get ==
    /\ last' = Reply("register_get", NoForm,
                     IF HasSession(request_session) THEN RedirectOnly("home")
                     ELSE Render("register.html", <<>>))
    /\ UNCHANGED <<users, appointments, reviews, cookie, issued, ended, pending, now>>

\* POST /register up to and including the existence check (lines 171-185);
\* a request that passes the check is left in flight, before its INSERT
register_post_check(form) ==
    /\ IF HasSession(request_session)
       THEN /\ last' = Reply("register_post", form, RedirectOnly("home"))
            /\ UNCHANGED pending
       ELSE IF register_fields_missing(form)
       THEN /\ last' = Reply("register_post", form,
                             Redirect("register", "danger", "Please fill all fields."))
            /\ UNCHANGED pending
       ELSE IF get_user_by_email(users, register_email(form)) # None
       THEN /\ last' = Reply("register_post", form, DuplicateEmail)
            /\ UNCHANGED pending
       ELSE /\ NumRows < MaxRows
            /\ pending' = pending (+) SetToBag({form})
            /\ UNCHANGED last
    /\ UNCHANGED <<users, appointments, reviews, cookie, issued, ended, now>>

\* POST /register from the INSERT on (lines 187-195): the UNIQUE constraint
\* is checked by the datastore when the row is written
register_post_insert(form, salt) ==
    /\ BagIn(form, pending)
    /\ LET email == register_email(form)
       IN  IF email_is_unique(users, email)
           THEN /\ users' = insert_row(users,
                       [id |-> next_id(users),
                        name |-> register_name(form),
                        email |-> email,
                        password_hash |-> generate_password_hash(form.password, salt),
                        created_at |-> now])
                /\ now' = now + 1
                /\ last' = Reply("register_post", form,
                                 Redirect("login", "success",
                                          "Registration successful. Please log in."))
           ELSE /\ UNCHANGED <<users, now>>
                /\ last' = Reply("register_post", form,
                                 Fault("sqlite3.IntegrityError"))
    /\ pending' = pending (-) SetToBag({form})
    /\ UNCHANGED <<appointments, reviews, cookie, issued, ended>>

(* ------------------------------ login / logout ------------------------- *)
LoginForms == [email : EmailInputs, password : LoginPasswordInputs]

InvalidCredentials == Redirect("login", "danger", "Invalid email or password.")

\* the login form's email compared as typed, without .lower()
login_email_case_sensitive(form) == strip(form.email)

login_email(form) == lower(strip(form.email))

\* an answer that tells an unknown email from a wrong password
login_failure_leaky(user) ==
    IF user = None THEN Redirect("login", "danger", "No account with that email.")
    ELSE InvalidCredentials

\* flash("Invalid email or password.", "danger"); redirect(url_for("login")):
\* one answer, whichever half of the test failed
login_failure(user) == InvalidCredentials

\* not user or not check_password_hash(user["password_hash"], password)
login_rejected(user, password) ==
    user = None \/ ~check_password_hash(user.password_hash, password)

login_get ==
    /\ last' = Reply("login_get", NoForm,
                     IF HasSession(request_session) THEN RedirectOnly("home")
                     ELSE Render("login.html", <<>>))
    /\ UNCHANGED <<users, appointments, reviews, cookie, issued, ended, pending, now>>

login_post(form) ==
    /\ LET user == get_user_by_email(users, login_email(form))
       IN  IF HasSession(request_session)
           THEN /\ last' = Reply("login_post", form, RedirectOnly("home"))
                /\ UNCHANGED <<cookie, issued, ended>>
           ELSE IF login_rejected(user, form.password)
           THEN /\ last' = Reply("login_post", form, login_failure(user))
                /\ UNCHANGED <<cookie, issued, ended>>
           ELSE /\ cookie' = start_session(user)
                /\ issued' = issued \cup {start_session(user)}
                /\ ended' = ended \ {start_session(user)}
                /\ last' = Reply("login_post", form,
                                 Redirect("home", "success", <<"Welcome back", user.name>>))
    /\ UNCHANGED <<users, appointments, reviews, pending, now>>

\* session.clear(): the response tells the browser to drop its cookie
logout ==
    /\ cookie' = EmptySession
    /\ ended' = IF HasSession(request_session) THEN ended \cup {request_session} ELSE ended
    /\ last' = Reply("logout", NoForm,
                     Redirect("home", "info", "You have been logged out."))
    /\ UNCHANGED <<users, appointments, reviews, issued, pending, now>>

\* The session is a cookie signed with app.secret_key and held by the client;
\* the server keeps no list of sessions, so a client may present again any
\* cookie the server has signed.
replay_cookie(token) ==
    /\ token \in issued
    /\ cookie # token
    /\ cookie' = token
    /\ UNCHANGED <<users, appointments, reviews, issued, ended, pending, now, last>>

(* ------------------------------ profile -------------------------------- *)
profile ==
    /\ last' = Reply("profile", NoForm,
                     IF ~login_required(request_session) THEN GateDenied
                     ELSE Render("profile.html",
                                 <<get_user_by_id(users, session_user_id(request_session))>>))
    /\ UNCHANGED <<users, appointments, reviews, cookie, issued, ended, pending, now>>

(* ------------------------------ book ----------------------------------- *)
BookForms ==
    {f \in [name : NameInputs, email : ContactInputs, date : DateInputs,
            time : TimeInputs, reason : ReasonInputs] :
        Cardinality({k \in {"name", "email", "date", "time"} : f[k] \in {<<>>, <<" ">>}}) <= 1}

\* the required fields tested as submitted, before .strip()
book_fields_missing_untrimmed(form) ==
    \/ form.name = <<>>
    \/ form.email = <<>>
    \/ form.date = <<>>
    \/ form.time = <<>>

\* not (name and email and appt_date and appt_time)
book_fields_missing(form) ==
    \/ strip(form.name) = <<>>
    \/ strip(form.email) = <<>>
    \/ strip(form.date) = <<>>
    \/ strip(form.time) = <<>>

BookValidationError == Redirect("book", "danger", "Please fill all required fields.")

appointment_row(id, session, form, created_at) ==
    [id |-> id,
     user_id |-> session_user_id(session),
     name |-> strip(form.name),
     email |-> strip(form.email),
     appt_date |-> strip(form.date),
     appt_time |-> strip(form.time),
     reason |-> strip(form.reason),
     created_at |-> created_at]

book_post(form) ==
    /\ IF ~login_required(request_session)
       THEN /\ last' = Reply("book_post", form, GateDenied)
            /\ UNCHANGED <<appointments, now>>
       ELSE IF book_fields_missing(form)
       THEN /\ last' = Reply("book_post", form, BookValidationError)
            /\ UNCHANGED <<appointments, now>>
       ELSE /\ NumRows < MaxRows
            /\ now' = now + 1
            /\ appointments' = insert_row(appointments,
                   appointment_row(next_id(appointments), request_session, form, now))
            /\ last' = Reply("book_post", form,
                             Redirect("book", "success", "Appointment booked successfully."))
    /\ UNCHANGED <<users, reviews, cookie, issued, ended, pending>>

book_get ==
    /\ last' = Reply("book_get", NoForm,
                     IF ~login_required(request_session) THEN GateDenied
                     ELSE Render("book.html",
                                 list_for_owner(appointments, session_user_id(request_session))))
    /\ UNCHANGED <<users, appointments, reviews, cookie, issued, ended, pending, now>>

(* ------------------------------ reviews -------------------------------- *)
ReviewForms ==
    {f \in [name : NameInputs, rating : RatingInputs, comment : CommentInputs] :
        f.name \notin {<<>>, <<" ">>} \/ f.rating = <<"4">>}

\* not (name and rating)
review_fields_missing(form) ==
    strip(form.name) = <<>> \/ strip(form.rating) = <<>>

ReviewValidationError ==
    Redirect("reviews", "danger", "Please provide your name and a rating.")

ReviewGateDenied == Redirect("login", "warning", "Please log in to post a review.")

review_row(id, session, form, created_at) ==
    [id |-> id,
     user_id |-> session_user_id(session),
     name |-> strip(form.name),
     rating |-> int_value(strip(form.rating)),
     comment |-> strip(form.comment),
     created_at |-> created_at]

reviews_post(form) ==
    /\ IF ~HasSession(request_session)
       THEN /\ last' = Reply("reviews_post", form, ReviewGateDenied)
            /\ UNCHANGED <<reviews, now>>
       ELSE IF review_fields_missing(form)
       THEN /\ last' = Reply("reviews_post", form, ReviewValidationError)
            /\ UNCHANGED <<reviews, now>>
       ELSE IF ~int_parses(strip(form.rating))
       THEN \* int(rating) raises ValueError while the parameters are built
            /\ last' = Reply("reviews_post", form, Fault("ValueError"))
            /\ UNCHANGED <<reviews, now>>
       ELSE /\ NumRows < MaxRows
            /\ now' = now + 1
            /\ reviews' = insert_row(reviews, review_row(next_id(reviews), request_session, form, now))
            /\ last' = Reply("reviews_post", form,
                             Redirect("reviews", "success", "Thanks for your review!"))
    /\ UNCHANGED <<users, appointments, cookie, issued, ended, pending>>

reviews_get ==
    /\ last' = Reply("reviews_get", NoForm,
                     Render("reviews.html", list_all(reviews, users)))
    /\ UNCHANGED <<users, appointments, reviews, cookie, issued, ended, pending, now>>

(* ------------------------------ specification -------------------------- *)
Next ==
    \/ home
    \/ about
    \/ register_get
    \/ \E form \in RegisterForms : register_post_check(form)
    \/ \E form \in RegisterForms, salt \in Salts : register_post_insert(form, salt)
    \/ login_get
    \/ \E form \in LoginForms : login_post(form)
    \/ logout
    \/ \E token \in issued : replay_cookie(token)
    \/ profile
    \/ \E form \in BookForms : book_post(form)
    \/ book_get
    \/ \E form \in ReviewForms : reviews_post(form)
    \/ reviews_get

Spec == Init /\ [][Next]_vars

(* ------------------------------ properties ----------------------------- *)
\* this step served a request of kind op (a step that only changes the cookie
\* the browser holds, or leaves a registration in flight, serves none)
Served(op) ==
    /\ last' # last \/ <<users, appointments, reviews>>' # <<users, appointments, reviews>>
    /\ last'.op = op

TablesUnchanged == UNCHANGED <<users, appointments, reviews>>

Blank(text) == \A i \in 1..Len(text) : text[i] = " "

\* trimmed is text without its leading and trailing spaces
IsTrimOf(trimmed, text) ==
    \E i \in 1..(Len(text) + 1) : \E j \in 0..Len(text) :
        /\ trimmed = SubSeq(text, i, j)
        /\ \A k \in 1..Len(text) : (k < i \/ k > j) => text[k] = " "
        /\ trimmed # <<>> => (trimmed[1] # " " /\ trimmed[Len(trimmed)] # " ")

IsPrefix(a, b) == Len(a) <= Len(b) /\ SubSeq(b, 1, Len(a)) = a

Reverse(seq) == [i \in 1..Len(seq) |-> seq[Len(seq) + 1 - i]]

\* the fields POST /book requires
RequiredBookFields == {"name", "email", "date", "time"}

SuccessReply == last'.resp.kind = "redirect" /\ last'.resp.flash # <<>>
                    /\ last'.resp.flash[1] = "success"

\* C1 (as claimed): a well-formed register request from an anonymous client
\* whose email, trimmed and lowercased, is already in the users table is
\* answered with DuplicateEmail and leaves the users table as it was, also
\* when the row appeared between the request's check and its INSERT.
C1_DuplicateEmailRejected ==
    [][(/\ Served("register_post")
        /\ last'.resp # RedirectOnly("home")
        /\ ~Blank(last'.form.name)
        /\ last'.form.password # <<>>
        /\ \E i \in 1..Len(users) : users[i].email = lower(strip(last'.form.email)))
       => (last'.resp = DuplicateEmail /\ users' = users)]_vars

\* C2: no two rows of users have the same email, and every stored email is
\* trimmed and in lower case.
C2_EmailsUniqueAndNormalized ==
    \A i \in 1..Len(users) :
        /\ \A j \in 1..Len(users) : users[i].email = users[j].email => i = j
        /\ \A k \in 1..Len(users[i].email) : users[i].email[k] \notin {"A", "B", "E"}
        /\ users[i].email # <<>>
        /\ users[i].email[1] # " " /\ users[i].email[Len(users[i].email)] # " "

\* C2 witness: two registrations of one email raced, the second INSERT was
\* refused by the table, and the row of the first is there.
C2_Witness ==
    /\ last.op = "register_post"
    /\ last.resp = Fault("sqlite3.IntegrityError")
    /\ \E i \in 1..Len(users) : users[i].email = lower(strip(last.form.email))

\* C3: a successful register stores the trimmed, lowercased email with a hash
\* of the password; a login from an anonymous client with that email in any
\* letter case and with surrounding spaces, and that password, is answered
\* with success and a session whose user_id is the id of that row.
C3_RegisterThenLogin ==
    [][/\ (Served("register_post") /\ users' # users)
          => LET row == users'[Len(users')]
             IN  /\ users' = Append(users, row)
                 /\ IsTrimOf(row.name, last'.form.name)
                 /\ row.email = lower(strip(last'.form.email))
                 /\ \E salt \in Salts :
                        row.password_hash = generate_password_hash(last'.form.password, salt)
       /\ \A i \in 1..Len(users) :
            (/\ Served("login_post")
             /\ ~HasSession(request_session)
             /\ users[i].email = lower(strip(last'.form.email))
             /\ users[i].password_hash =
                    generate_password_hash(last'.form.password, users[i].password_hash.salt))
            => (/\ SuccessReply
                /\ last'.resp.to = "home"
                /\ HasSession(cookie')
                /\ cookie'["user_id"] = users[i].id
                /\ cookie' \in issued')]_vars

\* C3 witness: a login typed as " A " was accepted for the row stored as "a".
C3_Witness ==
    /\ last.op = "login_post"
    /\ last.form.email = <<" ", "A", " ">>
    /\ last.resp.to = "home"
    /\ last.resp.flash # <<>>
    /\ HasSession(cookie)
    /\ \E i \in 1..Len(users) : users[i].id = cookie["user_id"] /\ users[i].email = <<"a">>

\* C4: a login from an anonymous client with an email no row has, and one with
\* an email a row has but another password, get one and the same answer
\* (InvalidCredentials: same message, same redirect to login), no session,
\* and change nothing in the store.
C4_LoginFailuresAlike ==
    [][(/\ Served("login_post")
        /\ ~HasSession(request_session)
        /\ \/ \A i \in 1..Len(users) : users[i].email # lower(strip(last'.form.email))
           \/ \E i \in 1..Len(users) :
                /\ users[i].email = lower(strip(last'.form.email))
                /\ users[i].password_hash #
                       generate_password_hash(last'.form.password, users[i].password_hash.salt))
       => (/\ last'.resp = InvalidCredentials
           /\ cookie' = cookie
           /\ issued' = issued
           /\ TablesUnchanged)]_vars

\* C4 witness: a login with the email of an existing row and a wrong password
\* was answered with InvalidCredentials.
C4_Witness ==
    /\ last.op = "login_post"
    /\ last.resp = InvalidCredentials
    /\ \E i \in 1..Len(users) :
         /\ users[i].email = lower(strip(last.form.email))
         /\ ~check_password_hash(users[i].password_hash, last.form.password)

\* C5 (as claimed): once a session has been ended by logout, a protected route
\* presented with that same token is denied.
C5_EndedTokenDenied ==
    [][(Served("profile") /\ cookie \in ended) => last'.resp = GateDenied]_vars

\* C5 (amended): a token issued at login for uid resolves to uid on every
\* later request that presents it, also after logout, since the server keeps
\* no record of ended sessions; logout leaves the browser without a session,
\* a protected route requested without one is denied, and a logout without a
\* session changes nothing.
C5_SessionLifecycle ==
    [][/\ (Served("login_post") /\ cookie' # cookie)
          => (/\ cookie' \in issued'
              /\ \E i \in 1..Len(users) :
                    users[i].id = cookie'["user_id"] /\ users[i].name = cookie'["user_name"])
       /\ (Served("profile") /\ cookie \in issued)
          => (/\ last'.resp.kind = "render"
              /\ Len(last'.resp.body) = 1
              /\ last'.resp.body[1] # None
              /\ last'.resp.body[1].id = cookie["user_id"])
       /\ (Served("profile") /\ cookie = EmptySession) => last'.resp = GateDenied
       /\ Served("logout")
          => (/\ cookie' = EmptySession
              /\ issued' = issued
              /\ TablesUnchanged
              /\ cookie = EmptySession => ended' = ended)]_vars

\* C5 witness: the profile page was served to a token that logout had ended.
C5_Witness ==
    /\ last.op = "profile"
    /\ last.resp.kind = "render"
    /\ cookie \in ended
    /\ last.resp.body[1].id = cookie["user_id"]

\* C6 (as claimed): a review posted with a session and a name, whose rating is
\* not an integer, is answered with an advisory message and a redirect, not a
\* server fault, and writes no row; a rating of "4" is stored as the integer 4.
C6_BadRatingIsValidationError ==
    [][(/\ Served("reviews_post")
        /\ HasSession(request_session)
        /\ ~Blank(last'.form.name))
       => IF int_parses(last'.form.rating)
          THEN last'.form.rating = <<"4">>
                  => (Len(reviews') = Len(reviews) + 1 /\ reviews'[Len(reviews')].rating = 4)
          ELSE /\ last'.resp.kind = "redirect"
               /\ last'.resp.flash # <<>>
               /\ reviews' = reviews]_vars

\* C7: a booking in which name, email, date or time is blank writes no
\* appointment (with a session it is answered with the validation message);
\* a blank reason alone does not stop the booking.
C7_BlankFieldRejected ==
    [][/\ (Served("book_post") /\ \E k \in RequiredBookFields : Blank(last'.form[k]))
          => (/\ appointments' = appointments
              /\ HasSession(request_session) => last'.resp = BookValidationError)
       /\ (Served("book_post")
             /\ HasSession(request_session)
             /\ \A k \in RequiredBookFields : ~Blank(last'.form[k]))
          => (/\ SuccessReply
              /\ Len(appointments') = Len(appointments) + 1
              /\ IsTrimOf(appointments'[Len(appointments')].reason, last'.form.reason))]_vars

\* C7 witness: a booking whose name was a single space was refused.
C7_Witness ==
    /\ last.op = "book_post"
    /\ last.form.name = <<" ">>
    /\ last.resp = BookValidationError

\* C8: GET /book shows a logged-in user exactly the appointments whose user_id
\* is that user's, newest first; an appointment is created only by a booking,
\* with the user_id of the session that booked and the trimmed submitted
\* fields, and is newer than every appointment before it.
C8_OwnAppointmentsOnly ==
    [][/\ (Served("book_get") /\ HasSession(request_session))
          => LET uid == request_session["user_id"]
                 body == last'.resp.body
             IN  /\ last'.resp.kind = "render"
                 /\ body = Reverse(SelectSeq(appointments, LAMBDA r : r.user_id = uid))
                 /\ \A i \in 1..Len(body) : body[i].user_id = uid
                 /\ \A i, j \in 1..Len(body) :
                        i < j => body[i].created_at > body[j].created_at
       /\ appointments' # appointments
          => (/\ last'.op = "book_post"
              /\ HasSession(request_session)
              /\ LET row == appointments'[Len(appointments')]
                 IN  /\ appointments' = Append(appointments, row)
                     /\ row.user_id = request_session["user_id"]
                     /\ IsTrimOf(row.name, last'.form.name)
                     /\ IsTrimOf(row.email, last'.form.email)
                     /\ IsTrimOf(row.appt_date, last'.form.date)
                     /\ IsTrimOf(row.appt_time, last'.form.time)
                     /\ IsTrimOf(row.reason, last'.form.reason)
                     /\ \A i \in 1..Len(appointments) :
                            appointments[i].created_at < row.created_at)]_vars

\* C8 witness: with two users registered and one appointment booked by the
\* other, a user's own list was shown empty.
C8_Witness ==
    /\ last.op = "book_get"
    /\ last.resp = Render("book.html", <<>>)
    /\ Len(users) = 2
    /\ Len(appointments) = 1

\* C9: without a session, /book (GET and POST), /profile and POST /reviews
\* answer with a redirect to login and change no table; every appointment
\* and review is written with the user_id of the session of its request,
\* never NULL.
C9_GateDeniesAnonymous ==
    [][/\ (/\ \E op \in {"book_get", "book_post", "profile", "reviews_post"} : Served(op)
           /\ ~HasSession(request_session))
          => (/\ last'.resp.kind = "redirect"
              /\ last'.resp.to = "login"
              /\ last'.resp.flash # <<>>
              /\ TablesUnchanged)
       /\ appointments' # appointments
          => (/\ HasSession(request_session)
              /\ appointments'[Len(appointments')].user_id = request_session["user_id"]
              /\ appointments'[Len(appointments')].user_id # NullId)
       /\ reviews' # reviews
          => (/\ HasSession(request_session)
              /\ reviews'[Len(reviews')].user_id = request_session["user_id"]
              /\ reviews'[Len(reviews')].user_id # NullId)]_vars

\* C9 witness: a complete booking form posted without a session was turned
\* away at the gate.
C9_Witness ==
    /\ last.op = "book_post"
    /\ last.resp = GateDenied
    /\ \A k \in RequiredBookFields : ~Blank(last.form[k])

\* C10: every step keeps every existing row of the three tables, in place and
\* unchanged; a successful register, booking or review adds exactly one row
\* to its own table and none to the others; every other request adds none.
C10_AppendOnly ==
    [][/\ IsPrefix(users, users')
       /\ IsPrefix(appointments, appointments')
       /\ IsPrefix(reviews, reviews')
       /\ LET du == Len(users') - Len(users)
              da == Len(appointments') - Len(appointments)
              dr == Len(reviews') - Len(reviews)
          IN  /\ (Served("register_post") /\ SuccessReply) => <<du, da, dr>> = <<1, 0, 0>>
              /\ (Served("book_post") /\ SuccessReply) => <<du, da, dr>> = <<0, 1, 0>>
              /\ (Served("reviews_post") /\ SuccessReply) => <<du, da, dr>> = <<0, 0, 1>>
              /\ ~(/\ SuccessReply
                   /\ \E op \in {"register_post", "book_post", "reviews_post"} : Served(op))
                 => <<du, da, dr>> = <<0, 0, 0>>]_vars

\* C10 witness: each of the three tables holds a row.
C10_Witness ==
    /\ Len(users) >= 1
    /\ Len(appointments) >= 1
    /\ Len(reviews) >= 1

====
